---- MODULE Spec2Model ----
(***************************************************************************)
(* A model of examples/render.rs of osmflat-rs: the tag classifier         *)
(* way_filter, the extent / aspect / MapTransform computation and the      *)
(* output dispatch of render.                                              *)
(*                                                                         *)
(* Strings are sequences of one-character strings, the string table is the *)
(* concatenation of NUL-terminated strings and tags address it by offset,  *)
(* as in the archive.  f64 values are modelled as exact fractions extended *)
(* with +inf, -inf and NaN; rounding of f64 arithmetic is not modelled.    *)
(* Coordinates are kept in the archive's integer unit (COORD_SCALE         *)
(* degrees); the scaling by COORD_SCALE is strictly increasing and cancels *)
(* in every quotient the program forms.                                    *)
(***************************************************************************)
EXTENDS Integers, Sequences, FiniteSets, TLC

VARIABLES
    ways,          \* archive.ways(): records [ref_first_idx, tag_first_idx]
    tags_index,    \* archive.tags_index(): indices into the tag array
    nodes_index,   \* archive.nodes_index(): indices into the node array
    output_ext,    \* output_path.extension()
    width,         \* the width argument of render
    pc,            \* position in render / in the classifier harness
    result,        \* what way_filter returned for the pair (ways[1], ways[2])
    roads,         \* the accepted way types, in way order (empty before Classify)
    extent,        \* (min, max) of the extent fold, or NoValue
    height,        \* the derived raster height, or NoValue
    t,             \* the MapTransform, or NoValue
    file,          \* state of the output file
    document,      \* the svg document: three groups of polylines
    error          \* the failure render ended with, or NoValue

vars == <<ways, tags_index, nodes_index, output_ext, width, pc, result, roads,
          extent, height, t, file, document, error>>

(***************************************************************************)
(* Bounds of the model.                                                    *)
(***************************************************************************)
MaxWayTags == 3        \* longest tag range of the classified way
MaxWayNodes == 2       \* most node references of the classified way
MaxWayRecords == 3     \* most records in the way array handed to render
MaxWidth == 2          \* largest requested canvas width
U32Bits == 16          \* modelled width of u32 (TLC integers are 32 bit)
IsizeBits == 24        \* modelled width of isize

U32Modulus == 2 ^ U32Bits
U32_MAX == U32Modulus - 1
ISIZE_MAX == 2 ^ (IsizeBits - 1) - 1
ISIZE_MIN == -(2 ^ (IsizeBits - 1))

NoValue == [kind |-> "NoValue"]

(***************************************************************************)
(* String literals of the program.                                         *)
(***************************************************************************)
NUL == "NUL"
Str_highway == <<"h", "i", "g", "h", "w", "a", "y">>
Str_pedestrian == <<"p", "e", "d", "e", "s", "t", "r", "i", "a", "n">>
Str_steps == <<"s", "t", "e", "p", "s">>
Str_footway == <<"f", "o", "o", "t", "w", "a", "y">>
Str_construction == <<"c", "o", "n", "s", "t", "r", "u", "c", "t", "i", "o", "n">>
Str_bic == <<"b", "i", "c">>
Str_cycleway == <<"c", "y", "c", "l", "e", "w", "a", "y">>
Str_layby == <<"l", "a", "y", "b", "y">>
Str_bridleway == <<"b", "r", "i", "d", "l", "e", "w", "a", "y">>
Str_path == <<"p", "a", "t", "h">>
Str_waterway == <<"w", "a", "t", "e", "r", "w", "a", "y">>
Str_width == <<"w", "i", "d", "t", "h">>
Str_maxwidth == <<"m", "a", "x", "w", "i", "d", "t", "h">>
Str_leisure == <<"l", "e", "i", "s", "u", "r", "e">>
Str_park == <<"p", "a", "r", "k">>

(***************************************************************************)
(* Further strings of the modelled archives.                               *)
(***************************************************************************)
Str_residential == <<"r", "e", "s", "i", "d", "e", "n", "t", "i", "a", "l">>
Str_river == <<"r", "i", "v", "e", "r">>
Str_garden == <<"g", "a", "r", "d", "e", "n">>
Str_5 == <<"5">>
Str_12 == <<"1", "2">>
Str_abc == <<"a", "b", "c">>

(***************************************************************************)
(* The archive's string table: the strings below, each followed by NUL.    *)
(***************************************************************************)
StringList ==
    << Str_highway, Str_residential, Str_pedestrian, Str_steps, Str_footway,
       Str_construction, Str_bic, Str_cycleway, Str_layby, Str_bridleway,
       Str_path, Str_waterway, Str_river, Str_leisure, Str_park, Str_garden,
       Str_width, Str_maxwidth, Str_5, Str_12, Str_abc >>

RECURSIVE ConcatTerminated(_, _)
ConcatTerminated(list, k) ==
    IF k > Len(list) THEN << >>
    ELSE list[k] \o <<NUL>> \o ConcatTerminated(list, k + 1)

StringTable == ConcatTerminated(StringList, 1)

RECURSIVE OffsetOfString(_)
\* byte offset (0-based) of the k-th string of StringList in StringTable
OffsetOfString(k) ==
    IF k = 1 THEN 0 ELSE OffsetOfString(k - 1) + Len(StringList[k - 1]) + 1

StrIdx(s) == OffsetOfString(CHOOSE k \in 1..Len(StringList) : StringList[k] = s)

Tag(key, value) == [key_idx |-> StrIdx(key), value_idx |-> StrIdx(value)]

\* archive.tags(): the tag records the modelled archives draw from
TagTable ==
    << Tag(Str_highway, Str_residential),
       Tag(Str_highway, Str_pedestrian),
       Tag(Str_highway, Str_steps),
       Tag(Str_highway, Str_footway),
       Tag(Str_highway, Str_construction),
       Tag(Str_highway, Str_bic),
       Tag(Str_highway, Str_cycleway),
       Tag(Str_highway, Str_layby),
       Tag(Str_highway, Str_bridleway),
       Tag(Str_highway, Str_path),
       Tag(Str_waterway, Str_river),
       Tag(Str_leisure, Str_park),
       Tag(Str_leisure, Str_garden),
       Tag(Str_width, Str_5),
       Tag(Str_maxwidth, Str_12),
       Tag(Str_width, Str_abc) >>

\* index (0-based, as stored in tags_index) of a tag record of TagTable
TagId(key, value) == (CHOOSE k \in 1..Len(TagTable) : TagTable[k] = Tag(key, value)) - 1

(***************************************************************************)
(* substring: the NUL-terminated string starting at byte offset start.     *)
(***************************************************************************)
RECURSIVE FindNul(_, _)
\* strings[start..].find('\0'): distance from pos (1-based) to the next NUL
FindNul(strings, pos) ==
    IF pos > Len(strings) THEN -1
    ELSE IF strings[pos] = NUL THEN 0
    ELSE LET r == FindNul(strings, pos + 1) IN IF r < 0 THEN -1 ELSE r + 1

substring(strings, start) ==
    LET end == FindNul(strings, start + 1)
    IN  SubSeq(strings, start + 1, start + end)

(***************************************************************************)
(* val.parse::<u32>(): an optional '+', then one or more decimal digits,   *)
(* failing on overflow.                                                    *)
(***************************************************************************)
Digits == <<"0", "1", "2", "3", "4", "5", "6", "7", "8", "9">>
IsDigit(c) == \E d \in 1..10 : Digits[d] = c
DigitValue(c) == (CHOOSE d \in 1..10 : Digits[d] = c) - 1

RECURSIVE ParseDigits(_, _, _)
ParseDigits(s, k, acc) ==
    IF k > Len(s) THEN [ok |-> TRUE, value |-> acc]
    ELSE IF ~IsDigit(s[k]) THEN [ok |-> FALSE]
    ELSE LET next == acc * 10 + DigitValue(s[k])
         IN  IF next > U32_MAX THEN [ok |-> FALSE]
             ELSE ParseDigits(s, k + 1, next)

ParseU32(s) ==
    IF Len(s) = 0 THEN [ok |-> FALSE]
    ELSE IF s[1] = "+"
         THEN IF Len(s) = 1 THEN [ok |-> FALSE] ELSE ParseDigits(s, 2, 0)
         ELSE ParseDigits(s, 1, 0)

(***************************************************************************)
(* WayType and Option<WayType>.                                            *)
(***************************************************************************)
None == [kind |-> "None"]
Park(start_node_idx, end_node_idx) ==
    [kind |-> "Park", start_node_idx |-> start_node_idx, end_node_idx |-> end_node_idx]
Road(start_node_idx, end_node_idx) ==
    [kind |-> "Road", start_node_idx |-> start_node_idx, end_node_idx |-> end_node_idx]
River(start_node_idx, end_node_idx, w) ==
    [kind |-> "River", start_node_idx |-> start_node_idx, end_node_idx |-> end_node_idx,
     width |-> w]

\* fn width(&self)
WayType_width(way_type) ==
    IF way_type.kind = "River" THEN way_type.width ELSE 1

(***************************************************************************)
(* way_filter.  The value is [ret, tags_read]: what the function returns   *)
(* and how many tag records it fetched with tags.at(..) before returning.  *)
(***************************************************************************)
\* variant of IsExcludedHighway that leaves "bic" out of the exclusion list
IsExcludedHighway_without_bic(val) ==
    \/ val = Str_pedestrian \/ val = Str_steps \/ val = Str_footway
    \/ val = Str_construction \/ val = Str_cycleway
    \/ val = Str_layby \/ val = Str_bridleway \/ val = Str_path

IsExcludedHighway(val) ==
    \/ val = Str_pedestrian \/ val = Str_steps \/ val = Str_footway
    \/ val = Str_construction \/ val = Str_bic \/ val = Str_cycleway
    \/ val = Str_layby \/ val = Str_bridleway \/ val = Str_path

RECURSIVE way_filter_width(_, _, _, _, _, _)
\* the inner loop of the waterway branch: tag is the tag of the OUTER loop,
\* the inner loop fetches no tag of its own
way_filter_width(tag, tag_idx, end_tag_idx, start_node_idx, end_node_idx, strings) ==
    IF tag_idx >= end_tag_idx
    THEN River(start_node_idx, end_node_idx, 1)
    ELSE LET key == substring(strings, tag.key_idx)
         IN  IF key = Str_width \/ key = Str_maxwidth
             THEN LET val == substring(strings, tag.value_idx)
                      parsed == ParseU32(val)
                  IN  IF parsed.ok
                      THEN River(start_node_idx, end_node_idx, parsed.value)
                      ELSE None
             ELSE way_filter_width(tag, tag_idx + 1, end_tag_idx,
                                   start_node_idx, end_node_idx, strings)

RECURSIVE way_filter_tags_keeping(_, _, _, _, _, _, _, _, _)
\* variant of the tag loop in which leisure=park does not return but is kept as
\* the result so far, which a later highway or waterway tag replaces
way_filter_tags_keeping(best, tag_idx, start_tag_idx, end_tag_idx, start_node_idx, end_node_idx, tagsIndex, tags, strings) ==
    IF tag_idx >= end_tag_idx
    THEN [ret |-> best, tags_read |-> tag_idx - start_tag_idx]
    ELSE LET tag == tags[tagsIndex[tag_idx + 1] + 1]
             key == substring(strings, tag.key_idx)
             val == substring(strings, tag.value_idx)
             read == tag_idx - start_tag_idx + 1
         IN  IF key = Str_highway
             THEN IF IsExcludedHighway(val)
                  THEN [ret |-> None, tags_read |-> read]
                  ELSE [ret |-> Road(start_node_idx, end_node_idx), tags_read |-> read]
             ELSE IF key = Str_waterway
             THEN [ret |-> way_filter_width(tag, start_tag_idx, end_tag_idx,
                                            start_node_idx, end_node_idx, strings),
                   tags_read |-> read]
             ELSE way_filter_tags_keeping(
                      IF key = Str_leisure /\ val = Str_park
                      THEN Park(start_node_idx, end_node_idx) ELSE best,
                      tag_idx + 1, start_tag_idx, end_tag_idx, start_node_idx,
                      end_node_idx, tagsIndex, tags, strings)

way_filter_tags_provisional_park(tag_idx, start_tag_idx, end_tag_idx, start_node_idx, end_node_idx, tagsIndex, tags, strings) ==
    way_filter_tags_keeping(None, tag_idx, start_tag_idx, end_tag_idx, start_node_idx,
                            end_node_idx, tagsIndex, tags, strings)

RECURSIVE way_filter_tags(_, _, _, _, _, _, _, _)
\* the loop over start_tag_idx..end_tag_idx, from tag_idx on
way_filter_tags(tag_idx, start_tag_idx, end_tag_idx, start_node_idx, end_node_idx, tagsIndex, tags, strings) ==
    IF tag_idx >= end_tag_idx
    THEN [ret |-> None, tags_read |-> tag_idx - start_tag_idx]
    ELSE LET tag == tags[tagsIndex[tag_idx + 1] + 1]
             key == substring(strings, tag.key_idx)
             val == substring(strings, tag.value_idx)
             read == tag_idx - start_tag_idx + 1
         IN  IF key = Str_highway
             THEN IF IsExcludedHighway(val)
                  THEN [ret |-> None, tags_read |-> read]
                  ELSE [ret |-> Road(start_node_idx, end_node_idx), tags_read |-> read]
             ELSE IF key = Str_waterway
             THEN [ret |-> way_filter_width(tag, start_tag_idx, end_tag_idx,
                                            start_node_idx, end_node_idx, strings),
                   tags_read |-> read]
             ELSE IF key = Str_leisure /\ val = Str_park
             THEN [ret |-> Park(start_node_idx, end_node_idx), tags_read |-> read]
             ELSE way_filter_tags(tag_idx + 1, start_tag_idx, end_tag_idx,
                                  start_node_idx, end_node_idx, tagsIndex, tags, strings)

\* variant of way_filter that lets a way with a single node through
way_filter_single_node_passes(way, next_way, tagsIndex, tags, strings) ==
    LET start_node_idx == way.ref_first_idx
        end_node_idx == next_way.ref_first_idx
    IN  IF end_node_idx - start_node_idx < 1
        THEN [ret |-> None, tags_read |-> 0]
        ELSE way_filter_tags(way.tag_first_idx, way.tag_first_idx, next_way.tag_first_idx,
                             start_node_idx, end_node_idx, tagsIndex, tags, strings)

way_filter(way, next_way, tagsIndex, tags, strings) ==
    LET start_node_idx == way.ref_first_idx
        end_node_idx == next_way.ref_first_idx
    IN  IF end_node_idx - start_node_idx < 2
        THEN [ret |-> None, tags_read |-> 0]
        ELSE way_filter_tags(way.tag_first_idx, way.tag_first_idx, next_way.tag_first_idx,
                             start_node_idx, end_node_idx, tagsIndex, tags, strings)

(***************************************************************************)
(* f64 values: [k |-> "fin", n, d] is the fraction n / d with d > 0.       *)
(***************************************************************************)
Fin(n, d) == [k |-> "fin", n |-> n, d |-> d]
PInf == [k |-> "pinf"]
NInf == [k |-> "ninf"]
NaN == [k |-> "nan"]

\* a / b for integers a and b converted to f64
FDiv(a, b) ==
    IF b > 0 THEN Fin(a, b)
    ELSE IF b < 0 THEN Fin(-a, -b)
    ELSE IF a > 0 THEN PInf
    ELSE IF a < 0 THEN NInf
    ELSE NaN

\* f * w for an unsigned integer w converted to f64
FMulInt(f, w) ==
    IF f.k = "fin" THEN Fin(f.n * w, f.d)
    ELSE IF f.k = "nan" \/ w = 0 THEN NaN
    ELSE f

\* 1f64 - f
FOneMinus(f) ==
    IF f.k = "fin" THEN Fin(f.d - f.n, f.d)
    ELSE IF f.k = "pinf" THEN NInf
    ELSE IF f.k = "ninf" THEN PInf
    ELSE NaN

\* rounding toward zero
Trunc(f) == IF f.n >= 0 THEN f.n \div f.d ELSE -((-f.n) \div f.d)

(***************************************************************************)
(* `as u32` and `as isize` of an f64.  In range the cast truncates.  Out   *)
(* of range, or for NaN, the result depends on the compiler: saturating    *)
(* (NaN to 0) where the cast is defined, and otherwise what the x86-64     *)
(* conversion instruction leaves (the minimal i64, of which `as u32`       *)
(* keeps the low bits).  saturating selects between the two.               *)
(***************************************************************************)
CastU32(f, saturating) ==
    IF f.k = "nan" THEN 0
    ELSE IF f.k = "pinf" THEN (IF saturating THEN U32_MAX ELSE 0)
    ELSE IF f.k = "ninf" THEN 0
    ELSE LET v == Trunc(f)
         IN  IF v > U32_MAX THEN (IF saturating THEN U32_MAX ELSE v % U32Modulus)
             ELSE IF v < 0 THEN (IF saturating THEN 0 ELSE v % U32Modulus)
             ELSE v

CastIsize(f, saturating) ==
    IF f.k = "nan" THEN (IF saturating THEN 0 ELSE ISIZE_MIN)
    ELSE IF f.k = "pinf" THEN (IF saturating THEN ISIZE_MAX ELSE ISIZE_MIN)
    ELSE IF f.k = "ninf" THEN ISIZE_MIN
    ELSE LET v == Trunc(f)
         IN  IF v > ISIZE_MAX THEN (IF saturating THEN ISIZE_MAX ELSE ISIZE_MIN)
             ELSE IF v < ISIZE_MIN THEN ISIZE_MIN
             ELSE v

(***************************************************************************)
(* GeoCoord.                                                               *)
(***************************************************************************)
MinOf(a, b) == IF a <= b THEN a ELSE b
MaxOf(a, b) == IF a >= b THEN a ELSE b

GeoCoord_min(self, other) ==
    [lat |-> MinOf(self.lat, other.lat), lon |-> MinOf(self.lon, other.lon)]

GeoCoord_max(self, other) ==
    [lat |-> MaxOf(self.lat, other.lat), lon |-> MaxOf(self.lon, other.lon)]

\* impl From<Node> for GeoCoord, in units of COORD_SCALE degrees
GeoCoord_from(node) == [lat |-> node.lat, lon |-> node.lon]

(***************************************************************************)
(* MapTransform.                                                           *)
(***************************************************************************)
MapTransform_new(w, h, min, max) ==
    [width |-> w, height |-> h, min_x |-> min.lon, min_y |-> min.lat,
     map_w |-> max.lon - min.lon, map_h |-> max.lat - min.lat]

\* variant of transform that does not flip the latitude axis
MapTransform_transform_unflipped(self, coord, saturating) ==
    << CastIsize(FMulInt(FDiv(coord.lon - self.min_x, self.map_w), self.width),
                 saturating),
       CastIsize(FMulInt(FDiv(coord.lat - self.min_y, self.map_h), self.height),
                 saturating) >>

MapTransform_transform(self, coord, saturating) ==
    << CastIsize(FMulInt(FDiv(coord.lon - self.min_x, self.map_w), self.width),
                 saturating),
       CastIsize(FMulInt(FOneMinus(FDiv(coord.lat - self.min_y, self.map_h)),
                         self.height),
                 saturating) >>

(***************************************************************************)
(* The node array and NodesIterator.                                       *)
(***************************************************************************)
\* archive.nodes(): lat and lon in the archive's integer unit
NodeTable ==
    << [lat |-> 1, lon |-> 4],
       [lat |-> 0, lon |-> 0],
       [lat |-> 5, lon |-> 2],
       [lat |-> 3, lon |-> 1],
       [lat |-> 3, lon |-> 1],
       [lat |-> 1, lon |-> 1] >>

\* the node index stored in slot k (0-based) of the node-index array
NodeIndexAt(k) == (5 * k + 1) % Len(NodeTable)

\* NodesIterator::from_way_type(..) collected: the nodes of slots [start, end)
NodesIterator_from_way_type(nodesIndex, way_type) ==
    [i \in 1..(way_type.end_node_idx - way_type.start_node_idx) |->
        NodeTable[nodesIndex[way_type.start_node_idx + i] + 1]]

\* NodesIterator::from_way_type(archive, &way_type).map(GeoCoord::from)
WayCoords(nodesIndex, way_type) ==
    LET nodes == NodesIterator_from_way_type(nodesIndex, way_type)
    IN  [i \in 1..Len(nodes) |-> GeoCoord_from(nodes[i])]

(***************************************************************************)
(* render, up to the output dispatch.                                      *)
(***************************************************************************)
\* ways.iter().zip(ways.iter().skip(1)): the pairs (way, next_way)
zip_ways(w) ==
    [i \in 1..(IF Len(w) = 0 THEN 0 ELSE Len(w) - 1) |-> <<w[i], w[i + 1]>>]

RECURSIVE filter_map_ways(_, _, _)
\* .filter_map(|(way, next_way)| way_filter(..)), from pair k on
filter_map_ways(pairs, k, tagsIndex) ==
    IF k > Len(pairs) THEN << >>
    ELSE LET r == way_filter(pairs[k][1], pairs[k][2], tagsIndex, TagTable,
                             StringTable).ret
         IN  (IF r = None THEN << >> ELSE <<r>>)
             \o filter_map_ways(pairs, k + 1, tagsIndex)

RECURSIVE flat_map_coords(_, _, _)
\* roads.flat_map(|way_type| NodesIterator::from_way_type(..).map(GeoCoord::from))
flat_map_coords(wayTypes, k, nodesIndex) ==
    IF k > Len(wayTypes) THEN << >>
    ELSE WayCoords(nodesIndex, wayTypes[k]) \o flat_map_coords(wayTypes, k + 1, nodesIndex)

RECURSIVE fold_extent(_, _, _)
\* coords.fold((first_coord, first_coord), |(min, max), coord| ..), from k on
fold_extent(coords, k, acc) ==
    IF k > Len(coords) THEN acc
    ELSE fold_extent(coords, k + 1,
                     [min |-> GeoCoord_min(acc.min, coords[k]),
                      max |-> GeoCoord_max(acc.max, coords[k])])

\* let ratio = 360. / 180. * (max.lat - min.lat) / (max.lon - min.lon)
Ratio(min, max) == FDiv(2 * (max.lat - min.lat), max.lon - min.lon)

\* let height = (width as f64 * ratio) as u32
HeightOf(w, min, max, saturating) == CastU32(FMulInt(Ratio(min, max), w), saturating)

\* the u32 subtraction x - 1 where overflow checks are off
WrappingDecrement(x) == (x - 1) % U32Modulus

Failed(msg) ==
    /\ pc' = "failed"
    /\ error' = msg

NoRoadsFound == "no roads found"
SubtractOverflow == "attempt to subtract with overflow"
MultiplyOverflow == "attempt to multiply with overflow"
IoError == "io error"
ExtensionNotSupported == "File extension not supported."
NoExtensionError == "Unable to guess format from file name (no extension)."

\* output_path.extension() of a path without extension
NoExtension == "<none>"

\* let roads = ways.iter().zip(..).filter_map(..)
Classify ==
    /\ pc = "classify"
    /\ roads' = filter_map_ways(zip_ways(ways), 1, tags_index)
    /\ pc' = "extent"
    /\ UNCHANGED <<ways, tags_index, nodes_index, output_ext, width, result,
                   extent, height, t, file, document, error>>

\* variant of the extent step that starts from GeoCoord::default() instead of
\* failing when there is no coordinate
ComputeExtent_default_first_coord ==
    /\ pc = "extent"
    /\ LET coords == flat_map_coords(roads, 1, nodes_index)
           first_coord == IF Len(coords) = 0 THEN [lat |-> 0, lon |-> 0] ELSE coords[1]
       IN  extent' = fold_extent(coords, 2, [min |-> first_coord, max |-> first_coord])
    /\ pc' = "height"
    /\ UNCHANGED <<ways, tags_index, nodes_index, output_ext, width, result, roads,
                   height, t, file, document, error>>

\* compute extent
ComputeExtent ==
    /\ pc = "extent"
    /\ LET coords == flat_map_coords(roads, 1, nodes_index)
       IN  IF Len(coords) = 0
           THEN /\ Failed(NoRoadsFound)
                /\ UNCHANGED extent
           ELSE /\ extent' = fold_extent(coords, 2, [min |-> coords[1], max |-> coords[1]])
                /\ pc' = "height"
                /\ UNCHANGED error
    /\ UNCHANGED <<ways, tags_index, nodes_index, output_ext, width, result, roads,
                   height, t, file, document>>

\* compute ratio and height
ComputeHeight ==
    /\ pc = "height"
    /\ \E saturating \in BOOLEAN :
          height' = HeightOf(width, extent.min, extent.max, saturating)
    /\ pc' = "transform"
    /\ UNCHANGED <<ways, tags_index, nodes_index, output_ext, width, result, roads,
                   extent, t, file, document, error>>

\* create world -> raster transformation: MapTransform::new(width - 1, height - 1, ..)
\* A u32 subtraction that overflows panics where overflow checks are on and wraps
\* where they are off.
BuildTransform ==
    /\ pc = "transform"
    /\ \/ /\ width >= 1 /\ height >= 1
          /\ t' = MapTransform_new(width - 1, height - 1, extent.min, extent.max)
          /\ pc' = "dispatch"
          /\ UNCHANGED error
       \/ /\ width = 0 \/ height = 0
          /\ t' = MapTransform_new(WrappingDecrement(width), WrappingDecrement(height),
                                   extent.min, extent.max)
          /\ pc' = "dispatch"
          /\ UNCHANGED error
       \/ /\ width = 0 \/ height = 0
          /\ Failed(SubtractOverflow)
          /\ UNCHANGED t
    /\ UNCHANGED <<ways, tags_index, nodes_index, output_ext, width, result, roads,
                   extent, height, file, document>>

(***************************************************************************)
(* The output dispatch.                                                    *)
(***************************************************************************)
\* NodesIterator::from_way_type(..).map(GeoCoord::from).map(|coord| t.transform(coord))
raster_coords(tr, nodesIndex, way_type, saturating) ==
    LET coords == WayCoords(nodesIndex, way_type)
    IN  [i \in 1..Len(coords) |-> MapTransform_transform(tr, coords[i], saturating)]

\* variant of GroupOf that adds the polylines of parks to the road group
GroupOf_park_as_road(way_type) ==
    IF way_type.kind = "River" THEN "river_group" ELSE "road_group"

\* the group a polyline of this way type is added to
GroupOf(way_type) ==
    IF way_type.kind = "Road" THEN "road_group"
    ELSE IF way_type.kind = "River" THEN "river_group"
    ELSE "park_group"

\* the polyline of one path; stroke_meters is the argument of t.transform_meters(..)
PolylineOf(tr, nodesIndex, way_type, saturating) ==
    IF way_type.kind = "River"
    THEN [points |-> raster_coords(tr, nodesIndex, way_type, saturating),
          stroke_meters |-> (way_type.width * 20) % U32Modulus]
    ELSE [points |-> raster_coords(tr, nodesIndex, way_type, saturating)]

RECURSIVE add_polylines(_, _, _, _, _, _)
\* for (nodes_iterator, way_type) in paths { .. }, from path k on
add_polylines(doc, wayTypes, k, tr, nodesIndex, saturating) ==
    IF k > Len(wayTypes) THEN doc
    ELSE LET g == GroupOf(wayTypes[k])
             line == PolylineOf(tr, nodesIndex, wayTypes[k], saturating)
         IN  add_polylines([doc EXCEPT ![g] = Append(@, line)], wayTypes, k + 1,
                           tr, nodesIndex, saturating)

EmptyDocument(w, h) ==
    [viewBox |-> <<0, 0, w, h>>, road_group |-> << >>, park_group |-> << >>,
     river_group |-> << >>]

\* Some("svg") => { .. svg::save(output_path, &document)?; }
DispatchSvg ==
    /\ pc = "dispatch"
    /\ output_ext = "svg"
    /\ \E saturating \in BOOLEAN :
          document' = add_polylines(EmptyDocument(width, height), roads, 1, t,
                                    nodes_index, saturating)
    /\ \/ /\ file' = "written"
          /\ pc' = "done"
          /\ UNCHANGED error
       \/ /\ file' \in {"absent", "created"}
          /\ Failed(IoError)
    /\ UNCHANGED <<ways, tags_index, nodes_index, output_ext, width, result, roads,
                   extent, height, t>>

\* Some("png") => { File::create(output_path)?; Image::new(width, height); .. }
\* Nothing is drawn: the image keeps its background.
DispatchPng ==
    /\ pc = "dispatch"
    /\ output_ext = "png"
    /\ \/ /\ file' = "absent"
          /\ Failed(IoError)
       \/ /\ width * height > U32_MAX
          /\ file' = "created"
          /\ Failed(MultiplyOverflow)
       \/ /\ file' = "created"
          /\ Failed(IoError)
       \/ /\ file' = "written"
          /\ pc' = "done"
          /\ UNCHANGED error
    /\ UNCHANGED <<ways, tags_index, nodes_index, output_ext, width, result, roads,
                   extent, height, t, document>>

\* variant of the unsupported-extension arm that silently writes the file
DispatchUnsupported_writes_file ==
    /\ pc = "dispatch"
    /\ output_ext \notin {"png", "svg", NoExtension}
    /\ file' = "written"
    /\ pc' = "done"
    /\ UNCHANGED <<ways, tags_index, nodes_index, output_ext, width, result, roads,
                   extent, height, t, document, error>>

\* _ => bail!("File extension not supported.")
DispatchUnsupported ==
    /\ pc = "dispatch"
    /\ output_ext \notin {"png", "svg", NoExtension}
    /\ Failed(ExtensionNotSupported)
    /\ UNCHANGED <<ways, tags_index, nodes_index, output_ext, width, result, roads,
                   extent, height, t, file, document>>

\* _ => bail!("Unable to guess format from file name (no extension).")
DispatchNoExtension ==
    /\ pc = "dispatch"
    /\ output_ext = NoExtension
    /\ Failed(NoExtensionError)
    /\ UNCHANGED <<ways, tags_index, nodes_index, output_ext, width, result, roads,
                   extent, height, t, file, document>>

(***************************************************************************)
(* The archives render is run on.  A way record is laid out by its shape:  *)
(* the number of node references and the tags it owns.  The records own    *)
(* consecutive slices of the node-index and tag-index arrays; the last     *)
(* record is a terminator when its shape is empty.                         *)
(***************************************************************************)
WayShapes ==
    { [nodes |-> 0, tags |-> << >>],
      [nodes |-> 3, tags |-> <<TagId(Str_highway, Str_residential)>>],
      [nodes |-> 4, tags |-> <<TagId(Str_leisure, Str_park)>>],
      [nodes |-> 2, tags |-> <<TagId(Str_highway, Str_footway)>>],
      [nodes |-> 2, tags |-> <<TagId(Str_leisure, Str_garden),
                               TagId(Str_waterway, Str_river)>>],
      [nodes |-> 1, tags |-> <<TagId(Str_highway, Str_residential)>>] }

RECURSIVE NodesBefore(_, _)
NodesBefore(shapes, i) ==
    IF i <= 1 THEN 0 ELSE NodesBefore(shapes, i - 1) + shapes[i - 1].nodes

RECURSIVE TagsBefore(_, _)
TagsBefore(shapes, i) ==
    IF i <= 1 THEN << >> ELSE TagsBefore(shapes, i - 1) \o shapes[i - 1].tags

ArchiveWays(shapes) ==
    [i \in 1..Len(shapes) |->
        [ref_first_idx |-> NodesBefore(shapes, i),
         tag_first_idx |-> Len(TagsBefore(shapes, i))]]

ArchiveNodesIndex(n) == [k \in 1..n |-> NodeIndexAt(k - 1)]

OutputExts == {"png", "svg", "bmp", NoExtension}

Init ==
    /\ \E r \in 0..MaxWayRecords : \E shapes \in [1..r -> WayShapes] :
          /\ ways = ArchiveWays(shapes)
          /\ tags_index = TagsBefore(shapes, r + 1)
          /\ nodes_index = ArchiveNodesIndex(NodesBefore(shapes, r + 1))
    /\ output_ext \in OutputExts
    /\ width \in 0..MaxWidth
    /\ pc = "classify"
    /\ result = NoValue
    /\ roads = << >>
    /\ extent = NoValue
    /\ height = NoValue
    /\ t = NoValue
    /\ file = "absent"
    /\ document = NoValue
    /\ error = NoValue

Next ==
    \/ Classify
    \/ ComputeExtent
    \/ ComputeHeight
    \/ BuildTransform
    \/ DispatchSvg
    \/ DispatchPng
    \/ DispatchUnsupported
    \/ DispatchNoExtension

Spec == Init /\ [][Next]_vars

(***************************************************************************)
(* The classifier on its own: one pair (way, next_way) whose tag range is  *)
(* any sequence of tags of TagTable with pairwise distinct keys (an OSM    *)
(* element carries each key at most once).                                 *)
(***************************************************************************)
DistinctKeys(tagIds) ==
    \A i, j \in 1..Len(tagIds) :
        i # j => TagTable[tagIds[i] + 1].key_idx # TagTable[tagIds[j] + 1].key_idx

InitFilter ==
    /\ \E n \in 0..MaxWayNodes : \E k \in 0..MaxWayTags :
          /\ ways = << [ref_first_idx |-> 0, tag_first_idx |-> 0],
                       [ref_first_idx |-> n, tag_first_idx |-> k] >>
          /\ nodes_index = ArchiveNodesIndex(n)
          /\ tags_index \in [1..k -> 0..(Len(TagTable) - 1)]
          /\ DistinctKeys(tags_index)
    /\ output_ext = "svg"
    /\ width = 1
    /\ pc = "filter"
    /\ result = NoValue
    /\ roads = << >>
    /\ extent = NoValue
    /\ height = NoValue
    /\ t = NoValue
    /\ file = "absent"
    /\ document = NoValue
    /\ error = NoValue

\* way_filter(&*way, &*next_way, &tags_index, &tags, strings)
ApplyWayFilter ==
    /\ pc = "filter"
    /\ result' = way_filter(ways[1], ways[2], tags_index, TagTable, StringTable)
    /\ pc' = "filtered"
    /\ UNCHANGED <<ways, tags_index, nodes_index, output_ext, width, roads,
                   extent, height, t, file, document, error>>

NextFilter == ApplyWayFilter

SpecFilter == InitFilter /\ [][NextFilter]_vars

(***************************************************************************)
(* Vocabulary of the properties of the classifier (stated over             *)
(* SpecFilter, where the classified pair is (ways[1], ways[2])).           *)
(***************************************************************************)
WayTagRange == (ways[1].tag_first_idx + 1)..ways[2].tag_first_idx
WayNodeCount == ways[2].ref_first_idx - ways[1].ref_first_idx
TagKeyAt(i) == substring(StringTable, TagTable[tags_index[i] + 1].key_idx)
TagValueAt(i) == substring(StringTable, TagTable[tags_index[i] + 1].value_idx)

ExclusionSet ==
    { Str_pedestrian, Str_steps, Str_footway, Str_construction, Str_bic,
      Str_cycleway, Str_layby, Str_bridleway, Str_path }

ExcludedHighwayAt(i) == TagKeyAt(i) = Str_highway /\ TagValueAt(i) \in ExclusionSet
AcceptedHighwayAt(i) == TagKeyAt(i) = Str_highway /\ TagValueAt(i) \notin ExclusionSet
WaterwayAt(i) == TagKeyAt(i) = Str_waterway
ParkAt(i) == TagKeyAt(i) = Str_leisure /\ TagValueAt(i) = Str_park
WidthAt(i) == TagKeyAt(i) = Str_width \/ TagKeyAt(i) = Str_maxwidth

\* a tag that ends the classifier's scan
DecisiveAt(i) == TagKeyAt(i) = Str_highway \/ WaterwayAt(i) \/ ParkAt(i)

\* position of the first decisive tag of the way, 0 when it has none
FirstDecisive ==
    IF \E i \in WayTagRange : DecisiveAt(i)
    THEN CHOOSE i \in WayTagRange :
            DecisiveAt(i) /\ \A j \in WayTagRange : j < i => ~DecisiveAt(j)
    ELSE 0

\* position of the first width / maxwidth tag of the way, 0 when it has none
FirstWidth ==
    IF \E i \in WayTagRange : WidthAt(i)
    THEN CHOOSE i \in WayTagRange :
            WidthAt(i) /\ \A j \in WayTagRange : j < i => ~WidthAt(j)
    ELSE 0

(***************************************************************************)
(* C1                                                                      *)
(***************************************************************************)
\* C1, as stated: a way that carries a highway tag with a value of the exclusion
\* set is rejected, whatever accepting tags it carries before or after that tag.
C1_ExcludedHighwayAlwaysRejected ==
    (pc = "filtered" /\ \E i \in WayTagRange : ExcludedHighwayAt(i))
        => result.ret = None

\* C1, amended: a way whose first decisive tag is a highway tag with a value of
\* the exclusion set is rejected, whatever tags are stored after it.
C1_ExcludedHighwayFirstRejected ==
    (pc = "filtered" /\ FirstDecisive # 0 /\ ExcludedHighwayAt(FirstDecisive))
        => result.ret = None

\* an excluded highway tag first, an accepting tag after it, at least 2 nodes
C1_Witness ==
    /\ pc = "filtered"
    /\ WayNodeCount >= 2
    /\ FirstDecisive # 0
    /\ ExcludedHighwayAt(FirstDecisive)
    /\ \E j \in WayTagRange : j > FirstDecisive /\ (ParkAt(j) \/ WaterwayAt(j))
    /\ result.ret = None

(***************************************************************************)
(* C2                                                                      *)
(***************************************************************************)
ParkAndAcceptedHighway ==
    /\ WayNodeCount >= 2
    /\ \E i \in WayTagRange : ParkAt(i)
    /\ \E i \in WayTagRange : AcceptedHighwayAt(i)

C3_RiverWidthFromWidthTag ==
    (pc = "filtered" /\ WayNodeCount >= 2 /\ FirstDecisive # 0
        /\ WaterwayAt(FirstDecisive)) =>
        IF FirstWidth = 0
        THEN result.ret = River(ways[1].ref_first_idx, ways[2].ref_first_idx, 1)
        ELSE IF ParseU32(TagValueAt(FirstWidth)).ok
        THEN result.ret = River(ways[1].ref_first_idx, ways[2].ref_first_idx,
                                ParseU32(TagValueAt(FirstWidth)).value)
        ELSE result.ret = None

(***************************************************************************)
(* C4                                                                      *)
(***************************************************************************)
\* C4: a way that references fewer than 2 nodes is rejected whatever its tags are,
\* and no tag record is fetched before it is.
C4_ShortWayRejectedBeforeTags ==
    (pc = "filtered" /\ WayNodeCount < 2) =>
        (result.ret = None /\ result.tags_read = 0)

\* a one-node way whose first tag would make it a Road
C4_Witness ==
    /\ pc = "filtered"
    /\ WayNodeCount = 1
    /\ ways[2].tag_first_idx > ways[1].tag_first_idx
    /\ AcceptedHighwayAt(ways[1].tag_first_idx + 1)
    /\ result = [ret |-> None, tags_read |-> 0]

(***************************************************************************)
(* Vocabulary of the properties of render (stated over Spec).              *)
(***************************************************************************)
\* what the classifier returns for record i delimited by record i + 1
ClassOfPair(i) ==
    way_filter(ways[i], ways[i + 1], tags_index, TagTable, StringTable).ret

\* what the classifier returns for record i, the last record being delimited by
\* the ends of the node-index and tag-index arrays
ClassOfRecord(i) ==
    IF i < Len(ways) THEN ClassOfPair(i)
    ELSE way_filter(ways[i],
                    [ref_first_idx |-> Len(nodes_index), tag_first_idx |-> Len(tags_index)],
                    tags_index, TagTable, StringTable).ret

PairsOfKind(kind) == {i \in 1..(Len(ways) - 1) : ClassOfPair(i).kind = kind}
RecordsOfKind(kind) == {i \in 1..Len(ways) : ClassOfRecord(i).kind = kind}

SvgSaved == pc = "done" /\ output_ext = "svg"

\* way A (highway=residential, 3 nodes), then way B (leisure=park, 4 nodes)
WaysAB ==
    /\ Len(ways) >= 2
    /\ ways[1] = [ref_first_idx |-> 0, tag_first_idx |-> 0]
    /\ ways[2] = [ref_first_idx |-> 3, tag_first_idx |-> 1]
    /\ Len(tags_index) = 2
    /\ tags_index[1] = TagId(Str_highway, Str_residential)
    /\ tags_index[2] = TagId(Str_leisure, Str_park)
    /\ Len(nodes_index) = 7

\* the way array holds the two records A and B and nothing else
ArchiveAB == WaysAB /\ Len(ways) = 2

\* the way array holds A, B and a terminating record
ArchiveABTerminated ==
    WaysAB /\ Len(ways) = 3 /\ ways[3] = [ref_first_idx |-> 7, tag_first_idx |-> 2]

(***************************************************************************)
(* C5                                                                      *)
(***************************************************************************)
\* C5, as stated: the svg output holds one polyline per way record that passes the
\* classifier, the last record of the way array included; the archive of the two
\* records A and B yields one road, one park and no river.
C5_EveryRecordRendered ==
    SvgSaved =>
        /\ Len(document.road_group) = Cardinality(RecordsOfKind("Road"))
        /\ Len(document.park_group) = Cardinality(RecordsOfKind("Park"))
        /\ Len(document.river_group) = Cardinality(RecordsOfKind("River"))
        /\ ArchiveAB =>
              /\ Len(document.road_group) = 1
              /\ Len(document.park_group) = 1
              /\ Len(document.river_group) = 0

\* C5, amended: the svg output holds one polyline per way record that has a
\* successor in the way array and passes the classifier; the last record only
\* delimits its predecessor.  The archive of A, B and a terminating record yields
\* one road, one park and no river.
C5_EveryDelimitedRecordRendered ==
    SvgSaved =>
        /\ Len(document.road_group) = Cardinality(PairsOfKind("Road"))
        /\ Len(document.park_group) = Cardinality(PairsOfKind("Park"))
        /\ Len(document.river_group) = Cardinality(PairsOfKind("River"))
        /\ ArchiveABTerminated =>
              /\ Len(document.road_group) = 1
              /\ Len(document.park_group) = 1
              /\ Len(document.river_group) = 0

\* the svg of the archive A, B, terminator is saved with its two features
C5_Witness ==
    /\ SvgSaved
    /\ ArchiveABTerminated
    /\ Len(document.road_group) = 1
    /\ Len(document.park_group) = 1
    /\ Len(document.river_group) = 0

(***************************************************************************)
(* C6                                                                      *)
(***************************************************************************)
UnsupportedExtension == output_ext \notin {"png", "svg"}

ExtensionErrorOf(ext) ==
    IF ext = NoExtension THEN NoExtensionError ELSE ExtensionNotSupported

\* C6, as stated: with an extension other than png and svg, or none, render fails
\* with the unsupported-extension error and creates no file, for every archive.
C6_UnsupportedExtensionError ==
    UnsupportedExtension =>
        /\ file = "absent"
        /\ pc # "done"
        /\ pc = "failed" => error = ExtensionErrorOf(output_ext)

\* C6, amended: with such an extension render never succeeds and creates no file;
\* it ends with the unsupported-extension error when it reaches the dispatch, with
\* "no roads found" when no way is accepted, and with the subtraction overflow
\* when width or height is 0 and overflow checks are on.
C6_UnsupportedExtensionFails ==
    UnsupportedExtension =>
        /\ file = "absent"
        /\ pc # "done"
        /\ pc = "failed" =>
              IF Len(roads) = 0 THEN error = NoRoadsFound
              ELSE \/ error = ExtensionErrorOf(output_ext)
                   \/ error = SubtractOverflow /\ (width = 0 \/ height = 0)

\* map.bmp with an accepted way: the unsupported-extension error, no file
C6_Witness ==
    /\ output_ext = "bmp"
    /\ pc = "failed"
    /\ Len(roads) > 0
    /\ error = ExtensionNotSupported
    /\ file = "absent"

(***************************************************************************)
(* C7                                                                      *)
(***************************************************************************)
\* C7: when no way passes the classifier, render fails at the extent step, before
\* the transform is built and before the dispatch, and no file is created, for
\* every output extension.
C7_NoRoadsFailsBeforeDispatch ==
    (pc # "classify" /\ Len(roads) = 0) =>
        /\ pc \in {"extent", "failed"}
        /\ pc = "failed" => error = NoRoadsFound
        /\ file = "absent"
        /\ t = NoValue
        /\ document = NoValue

\* two highway=footway ways and a png output: failed with "no roads found"
C7_Witness ==
    /\ pc = "failed"
    /\ error = NoRoadsFound
    /\ output_ext = "png"
    /\ Len(ways) = 3
    /\ Len(tags_index) = 2
    /\ \A i \in 1..2 : tags_index[i] = TagId(Str_highway, Str_footway)
    /\ file = "absent"

(***************************************************************************)
(* C8                                                                      *)
(***************************************************************************)
\* the coordinates of the extent
ExtentCoords ==
    { [lat |-> la, lon |-> lo] :
        la \in extent.min.lat..extent.max.lat, lo \in extent.min.lon..extent.max.lon }

ProjX(c, saturating) == MapTransform_transform(t, c, saturating)[1]
ProjY(c, saturating) == MapTransform_transform(t, c, saturating)[2]

\* the coordinates of the extent, each with its projection
Projected(saturating) ==
    { [coord |-> c, x |-> ProjX(c, saturating), y |-> ProjY(c, saturating)] :
        c \in ExtentCoords }

\* C8, as stated: within the extent, a smaller longitude projects to a strictly
\* smaller x and a smaller latitude to a strictly greater y.
C8_StrictlyMonotonic ==
    pc = "dispatch" =>
        \A saturating \in BOOLEAN :
            LET points == Projected(saturating)
            IN  \A a, b \in points :
                    /\ a.coord.lon < b.coord.lon => a.x < b.x
                    /\ a.coord.lat < b.coord.lat => a.y > b.y

\* C8, amended: within the extent, a smaller longitude projects to an x that is not
\* greater and a smaller latitude to a y that is not smaller (the truncation maps
\* distinct coordinates to one pixel).
C8_Monotonic ==
    pc = "dispatch" =>
        \A saturating \in BOOLEAN :
            LET points == Projected(saturating)
            IN  \A a, b \in points :
                    /\ a.coord.lon < b.coord.lon => a.x <= b.x
                    /\ a.coord.lat < b.coord.lat => a.y >= b.y

\* a transform under which x grows and y falls between two coordinates of the
\* extent, and two other coordinates of different longitude share their x
C8_Witness ==
    /\ pc = "dispatch"
    /\ \E a, b \in ExtentCoords :
          /\ a.lon < b.lon /\ ProjX(a, TRUE) < ProjX(b, TRUE)
          /\ a.lat < b.lat /\ ProjY(a, TRUE) > ProjY(b, TRUE)
    /\ \E a, b \in ExtentCoords : a.lon < b.lon /\ ProjX(a, TRUE) = ProjX(b, TRUE)

(***************************************************************************)
(* C9                                                                      *)
(***************************************************************************)
\* the coordinates of the accepted ways
AcceptedCoords ==
    {c \in ExtentCoords :
        \E k \in 1..Len(roads) :
            \E i \in 1..Len(WayCoords(nodes_index, roads[k])) :
                WayCoords(nodes_index, roads[k])[i] = c}

\* C9: under the transform render builds for a width of at least 1, every
\* coordinate of every accepted way projects into 0..width-1 x 0..height-1; the min
\* corner of the extent projects to (0, height-1) and the max corner to (width-1, 0).
C9_ProjectionInsideImage ==
    (pc = "dispatch" /\ width >= 1) =>
        \A saturating \in BOOLEAN :
            /\ \A c \in AcceptedCoords :
                  /\ 0 <= ProjX(c, saturating) /\ ProjX(c, saturating) <= width - 1
                  /\ 0 <= ProjY(c, saturating) /\ ProjY(c, saturating) <= height - 1
            /\ MapTransform_transform(t, extent.min, saturating) = <<0, height - 1>>
            /\ MapTransform_transform(t, extent.max, saturating) = <<width - 1, 0>>

(***************************************************************************)
(* C10                                                                     *)
(***************************************************************************)
NonDegenerateExtent ==
    /\ extent # NoValue
    /\ extent.max.lat > extent.min.lat
    /\ extent.max.lon > extent.min.lon

\* C10: with a non-degenerate extent and a width of at least 1 the derived height
\* is at least 1, and the subtractions width - 1 and height - 1 do not overflow.
C10_HeightAtLeastOne ==
    (pc \in {"transform", "dispatch", "done", "failed"} /\ NonDegenerateExtent
        /\ width >= 1) =>
        /\ height >= 1
        /\ error # SubtractOverflow
        /\ t # NoValue => (t.width = width - 1 /\ t.height = height - 1)

====
